---- MODULE Spec2Model ----
(***************************************************************************)
(* State-machine model of the Daraz scraping pipeline:                     *)
(*   - fetch_html              (scraper.py, scraper_optimized.py)          *)
(*   - search_products         (scraper.py, sequential facade)             *)
(*   - search_products_selenium (scraper_selenium.py, alternate backend)   *)
(*   - search_products_async / search_products_streaming                   *)
(*                             (scraper_optimized.py, concurrent facade)   *)
(*   - search_products_cloud   (scraper_cloud.py, cloud facade)            *)
(*   - search_products_batch   (scraper_optimized.py, batch of queries)    *)
(*   - parse_search_results, parse_product_details (the parsers, card by   *)
(*                             card and field by field)                    *)
(*   - api_search              (app.py, app_cloud.py, the HTTP handlers)   *)
(* A behaviour is one call of one entry point, or the requests served by   *)
(* the threads of the cloud API server; `mode` says which.                 *)
(***************************************************************************)
EXTENDS Integers, Sequences, FiniteSets, TLC

(* ------------------------------ bounds -------------------------------- *)
\* longest search page (number of cards) the model feeds to the parsers
MaxCards == 2
\* largest max_results a caller passes
MaxResultsArg == 2
\* largest max_retries a direct caller of fetch_html passes
MaxRetriesArg == 3
\* largest base delay (seconds) a direct caller of fetch_html passes
MaxDelayArg == 2
\* most product elements the browser backend locates on a page
MaxElements == 2
\* largest max_concurrent a caller passes
MaxConcurrentArg == 2
\* most queries a caller passes to search_products_batch
MaxQueries == 2
\* request-handling threads of the cloud API server
MaxThreads == 2
\* last tick of the clock the cloud API server reads
MaxTime == 5
\* number of selectors of one field of a product page the model follows
MaxHypotheses == 2

(* ------------------------- program constants -------------------------- *)
\* default of fetch_html's max_retries parameter
DEFAULT_MAX_RETRIES == 3
\* default of fetch_html's delay parameter (seconds)
DEFAULT_DELAY == 1

NO_PRICE == "Price not available"
DETAILS_UNAVAILABLE == "Product details unavailable"
PRICE_UNAVAILABLE == "Price unavailable"
SEARCH_URL == "https://www.daraz.com.np/catalog/?q=query"

\* app_cloud.py line 139: seconds between two requests let through
MIN_REQUEST_INTERVAL == 3

(* --------------------------- HTTP responses --------------------------- *)
\* What one GET can produce: status 200, another 2xx status (204, ...), a
\* status below 200 or from 300 to 399 (304, ...), a 4xx/5xx status, or an
\* exception of the HTTP client (connection error, timeout).
Responses == {"ok200", "ok2xx", "status3xx", "http_error", "net_error"}

\* the statuses for which response.raise_for_status() raises nothing
NoHttpError == {"ok200", "ok2xx", "status3xx"}

\* str(e) of the exception a response class leads to
Cause(resp) ==
    CASE resp = "http_error" -> "HTTPError"
      [] resp = "net_error" -> "ConnectionError"
      [] OTHER -> "RuntimeError"

(* ----------------------------- fetch_html ----------------------------- *)
\* fetch_html with a backoff that does not grow: time.sleep(delay)
fetch_html_ConstantDelay(attempt, max_retries, delay, resp) ==
    IF resp \in NoHttpError
    THEN [kind |-> "return", slept |-> FALSE, sleep |-> 0, exc |-> ""]
    ELSE IF attempt = max_retries - 1
         THEN [kind |-> "raise", slept |-> FALSE, sleep |-> 0, exc |-> Cause(resp)]
         ELSE [kind |-> "retry", slept |-> TRUE, sleep |-> delay, exc |-> ""]

\* fetch_html with a loop that runs once too often: range(max_retries + 1)
fetch_html_ExtraAttempt(attempt, max_retries, delay, resp) ==
    IF resp \in NoHttpError
    THEN [kind |-> "return", slept |-> FALSE, sleep |-> 0, exc |-> ""]
    ELSE IF attempt = max_retries
         THEN [kind |-> "raise", slept |-> FALSE, sleep |-> 0, exc |-> Cause(resp)]
         ELSE [kind |-> "retry", slept |-> TRUE, sleep |-> delay * (2 ^ attempt),
               exc |-> ""]

\* One iteration of the retry loop of scraper.fetch_html: the outcome of
\* attempt `attempt` (0-based) given the response of its GET.
\*   return : response.text is returned
\*   raise  : the exception propagates to the caller
\*   retry  : time.sleep(sleep), then the next attempt
fetch_html(attempt, max_retries, delay, resp) ==
    IF resp \in NoHttpError
    THEN [kind |-> "return", slept |-> FALSE, sleep |-> 0, exc |-> ""]
    ELSE IF attempt = max_retries - 1
         THEN [kind |-> "raise", slept |-> FALSE, sleep |-> 0, exc |-> Cause(resp)]
         ELSE [kind |-> "retry", slept |-> TRUE, sleep |-> delay * (2 ^ attempt),
               exc |-> ""]

\* One iteration of the retry loop of MemoryOptimizedScraper.fetch_html.
\* Only status 200 returns; a 4xx/5xx status raises inside the try; any
\* other status falls out of the `async with` blocks without an exception,
\* so the loop goes on without sleeping, and after the last iteration the
\* RuntimeError below the loop is raised.
fetch_html_async(attempt, max_retries, resp) ==
    IF resp = "ok200"
    THEN [kind |-> "return", slept |-> FALSE, sleep |-> 0, exc |-> ""]
    ELSE IF resp \in NoHttpError
         THEN IF attempt = max_retries - 1
              THEN [kind |-> "raise", slept |-> FALSE, sleep |-> 0,
                    exc |-> "RuntimeError"]
              ELSE [kind |-> "retry", slept |-> FALSE, sleep |-> 0, exc |-> ""]
         ELSE IF attempt = max_retries - 1
              THEN [kind |-> "raise", slept |-> FALSE, sleep |-> 0,
                    exc |-> Cause(resp)]
              ELSE [kind |-> "retry", slept |-> TRUE, sleep |-> 2 ^ attempt,
                    exc |-> ""]

(* ------------------------------ documents ----------------------------- *)
URLs == {"https://www.daraz.com.np/products/a.html",
         "https://www.daraz.com.np/products/b.html"}

\* A card of a search page, by what the selectors of parse_search_results
\* extract from it: the product link's absolute URL ("" when the card has
\* no product link), the name and the price text ("" when nothing matches).
Cards ==
    {[url |-> "https://www.daraz.com.np/products/a.html", name |-> "Soap Bar",
      price |-> "Rs. 100"],
     [url |-> "https://www.daraz.com.np/products/b.html", name |-> "Brush",
      price |-> ""],
     [url |-> "", name |-> "Banner", price |-> ""]}

RECURSIVE SeqsUpTo(_, _)
SeqsUpTo(S, n) ==
    IF n = 0 THEN {<<>>}
    ELSE LET shorter == SeqsUpTo(S, n - 1)
         IN shorter \cup {Append(s, x) : s \in {t \in shorter : Len(t) = n - 1}, x \in S}

SearchDocs == SeqsUpTo(Cards, MaxCards)

\* A product page, by what parse_product_details extracts from it.
DetailDocs ==
    {[product_name |-> "Soap Bar 100g", price |-> "Rs. 95"],
     [product_name |-> "", price |-> ""]}

\* Python's `a or b` on strings
Or(a, b) == IF a # "" THEN a ELSE b

\* the loop without its `continue` and its `if product_name and
\* product_url` tests
RECURSIVE parse_search_results_KeepAll(_)
parse_search_results_KeepAll(doc) ==
    IF doc = <<>> THEN <<>>
    ELSE <<[name |-> Head(doc).name, price |-> Or(Head(doc).price, NO_PRICE),
            url |-> Head(doc).url]>> \o parse_search_results_KeepAll(Tail(doc))

RECURSIVE parse_search_results(_)
parse_search_results(doc) ==
    IF doc = <<>> THEN <<>>
    ELSE LET card == Head(doc)
             rest == parse_search_results(Tail(doc))
         IN IF card.url = "" \/ card.name = ""
            THEN rest
            ELSE <<[name |-> card.name, price |-> Or(card.price, NO_PRICE),
                    url |-> card.url]>> \o rest

parse_product_details(doc, product_url) ==
    [product_name |-> doc.product_name, price |-> doc.price,
     product_url |-> product_url, rank |-> 0]

\* The dictionary get_product_details returns when fetch_html raised.
get_product_details_failed(product_url, exc) ==
    [product_name |-> DETAILS_UNAVAILABLE, price |-> PRICE_UNAVAILABLE,
     product_url |-> product_url, rank |-> 0, error |-> exc]

\* the merge without its "rank": i + 1 entry
MergeResult_NoRank(detailed_info, summary, rank) ==
    [detailed_info EXCEPT !.product_name = Or(detailed_info.product_name, summary.name),
                          !.price = Or(detailed_info.price, summary.price)]

\* the slice taken from the end of the list: s[-n:]
Take_FromEnd(s, n) ==
    SubSeq(s, Len(s) - (IF n < Len(s) THEN n ELSE Len(s)) + 1, Len(s))

\* search_products: merge of the summary with the detail dictionary
MergeResult(detailed_info, summary, rank) ==
    [detailed_info EXCEPT !.product_name = Or(detailed_info.product_name, summary.name),
                          !.price = Or(detailed_info.price, summary.price),
                          !.rank = rank]

Min(a, b) == IF a < b THEN a ELSE b
Take(s, n) == SubSeq(s, 1, Min(n, Len(s)))


(* ------------------- parse_search_results, card by card --------------- *)
\* A URL or href is a sequence of pieces, a text a sequence of characters.
BASE_URL == <<"https:", "//", "www.daraz.com.np">>
PRODUCT_PATH == <<"/", "products/a.html">>

\* The hrefs a product link (an <a> whose href contains /products/) can
\* carry; <<>> stands for a card without such a link or with an empty href.
H_NONE == <<>>
H_PROTOCOL_RELATIVE == <<"//", "www.daraz.com.np">> \o PRODUCT_PATH
H_PROTOCOL_RELATIVE_OTHER == <<"//", "www.daraz.lk">> \o PRODUCT_PATH
H_ROOT_RELATIVE == PRODUCT_PATH
H_ABSOLUTE == BASE_URL \o PRODUCT_PATH
H_ABSOLUTE_HTTP == <<"http:", "//", "www.daraz.com.np">> \o PRODUCT_PATH
H_BARE_RELATIVE == <<"np">> \o PRODUCT_PATH

Hrefs == {H_NONE, H_PROTOCOL_RELATIVE, H_PROTOCOL_RELATIVE_OTHER, H_ROOT_RELATIVE,
          H_ABSOLUTE, H_ABSOLUTE_HTTP, H_BARE_RELATIVE}

\* str.startswith on an href
StartsWith(href, prefix) ==
    /\ href # <<>>
    /\ CASE prefix = "//" -> href[1] = "//"
         [] prefix = "/" -> href[1] \in {"/", "//"}
         [] prefix = "http" -> href[1] \in {"http:", "https:"}
         [] OTHER -> FALSE

\* parse_search_results lines 120-128: "Build full URL"
build_url(href) ==
    IF StartsWith(href, "//") THEN <<"https:">> \o href
    ELSE IF StartsWith(href, "/") THEN BASE_URL \o href
    ELSE IF StartsWith(href, "http") THEN href
    ELSE BASE_URL \o <<"/">> \o href

Digits == {"0", "1", "2", "3", "4", "5", "6", "7", "8", "9"}

\* any(char.isdigit() for char in text)
HasDigit(text) == \E i \in DOMAIN text : text[i] \in Digits

T_EMPTY == <<>>
T_SHORT == <<"N", "e", "w">>
T_NAME == <<"S", "o", "a", "p">>
T_PRICE == <<"R", "s", ".", "9", "5">>
T_NO_DIGIT == <<"C", "a", "l", "l">>
NO_PRICE_TEXT == <<"P", "r", "i", "c", "e", " ", "n", "o", "t", " ",
                   "a", "v", "a", "i", "l", "a", "b", "l", "e">>

\* A product card of a search page:
\*   href      : the href of its product link
\*   names     : the stripped texts of the elements its name selectors
\*               match, in the order of the selectors
\*   link_text : the stripped text of its product link
\*   prices    : the stripped texts of the elements its price selectors
\*               match, in the order of the selectors
RawCards ==
    [href : Hrefs, names : {<<T_NAME>>}, link_text : {T_NAME}, prices : {<<T_PRICE>>}]
    \cup
    [href : {H_ROOT_RELATIVE},
     names : {<<>>, <<T_EMPTY>>, <<T_SHORT>>, <<T_PRICE>>, <<T_SHORT, T_NAME>>,
              <<T_NAME, T_SHORT>>},
     link_text : {T_EMPTY, T_NAME}, prices : {<<T_PRICE>>}]
    \cup
    [href : {H_ROOT_RELATIVE}, names : {<<T_NAME>>}, link_text : {T_NAME},
     prices : {<<>>, <<T_NO_DIGIT>>, <<T_NO_DIGIT, T_PRICE>>, <<T_PRICE, T_NO_DIGIT>>}]
    \cup
    {[href |-> H_NONE, names |-> <<>>, link_text |-> T_EMPTY, prices |-> <<>>]}

RawDocs == SeqsUpTo(RawCards, MaxCards)

\* scraper.py lines 140-146: the loop over name_selectors; product_name is
\* the text of the last element looked at
RECURSIVE NameLoop(_, _)
NameLoop(names, product_name) ==
    IF names = <<>> THEN product_name
    ELSE IF Head(names) # <<>> /\ Len(Head(names)) > 3
         THEN Head(names)
         ELSE NameLoop(Tail(names), Head(names))

\* scraper.py lines 140-150
extract_name(card) ==
    LET product_name == NameLoop(card.names, <<>>)
    IN IF product_name = <<>> THEN card.link_text ELSE product_name

\* scraper.py lines 161-167: the loop over price_selectors
RECURSIVE PriceLoop(_, _)
PriceLoop(prices, price_text) ==
    IF prices = <<>> THEN price_text
    ELSE IF Head(prices) # <<>> /\ HasDigit(Head(prices))
         THEN Head(prices)
         ELSE PriceLoop(Tail(prices), Head(prices))

\* scraper_optimized.py _extract_product_name: the text of div.RfADt (the
\* first of the card's name elements) when it is longer than 3 characters
\* and does not start with 'Rs.', else the link text when it is longer than
\* 3 characters, else ""
_extract_product_name(card) ==
    LET text == IF card.names = <<>> THEN <<>> ELSE card.names[1]
    IN IF Len(text) > 3 /\ SubSeq(text, 1, 3) # <<"R", "s", ".">>
       THEN text
       ELSE IF Len(card.link_text) > 3 THEN card.link_text ELSE <<>>

\* re.search(r'Rs\.\s*[\d,]+', text) finds a match in this text
IsRsPrice(text) ==
    /\ Len(text) >= 4
    /\ SubSeq(text, 1, 3) = <<"R", "s", ".">>
    /\ text[4] \in Digits \cup {","}

\* scraper_optimized.py _extract_price: the first 'Rs. <digits>' of the
\* card's text, else ""
RECURSIVE _extract_price(_)
_extract_price(texts) ==
    IF texts = <<>> THEN <<>>
    ELSE IF IsRsPrice(Head(texts)) THEN Head(texts)
         ELSE _extract_price(Tail(texts))

\* One iteration of the loop over product_cards (scraper.py lines 109-178,
\* scraper_optimized.py lines 132-169): whether the card is appended to
\* products, and the summary appended.
parse_card(flavor, card) ==
    LET product_name == IF flavor = "sync" THEN extract_name(card)
                        ELSE _extract_product_name(card)
        price == IF flavor = "sync" THEN PriceLoop(card.prices, <<>>)
                 ELSE _extract_price(card.prices)
    IN [emit |-> card.href # <<>> /\ product_name # <<>>,
        summary |-> [name |-> product_name,
                     price |-> IF price = <<>> THEN NO_PRICE_TEXT ELSE price,
                     url |-> IF card.href = <<>> THEN <<>> ELSE build_url(card.href)]]

(* -------------------- product page, field by field -------------------- *)
T_NAME_ALT == <<"B", "r", "u", "s", "h">>
T_RATING == <<"4", ".", "5">>
T_SELLER == <<"S", "h", "o", "p">>
T_SELLER_ALT == <<"M", "a", "l", "l">>

\* What one selector finds on a page: no element, or the first element it
\* matches, with that element's stripped text
Miss == [found |-> FALSE, text |-> T_EMPTY]
Hit(text) == [found |-> TRUE, text |-> text]

\* all sequences of exactly n elements of S
RECURSIVE Tuples(_, _)
Tuples(S, n) ==
    IF n = 0 THEN {<<>>}
    ELSE {Append(t, x) : t \in Tuples(S, n - 1), x \in S}

NameFinds == {Miss, Hit(T_EMPTY), Hit(T_NAME), Hit(T_NAME_ALT)}
RatingFinds == {Miss, Hit(T_EMPTY), Hit(T_NO_DIGIT), Hit(T_RATING)}
SellerFinds == {Miss, Hit(T_EMPTY), Hit(T_SELLER), Hit(T_SELLER_ALT)}

\* A product page, as the selectors of parse_product_details see it:
\*   name            : what the name selectors find, in their order
\*   rating          : what the rating selectors find, in their order
\*   seller          : what 'div.seller-name__detail a.seller-name__detail-name'
\*                     finds
\*   seller_fallback : what the generic seller selectors find, in their order
\* The pages vary one field at a time.
DetailPages ==
    [name : Tuples(NameFinds, MaxHypotheses),
     rating : {<<Hit(T_RATING)>>},
     seller : {Hit(T_SELLER)}, seller_fallback : {<<>>}]
    \cup
    [name : {<<Hit(T_NAME)>>},
     rating : Tuples(RatingFinds, MaxHypotheses),
     seller : {Hit(T_SELLER)}, seller_fallback : {<<>>}]
    \cup
    [name : {<<Hit(T_NAME)>>},
     rating : {<<Hit(T_RATING)>>},
     seller : {Miss, Hit(T_EMPTY), Hit(T_SELLER)},
     seller_fallback : Tuples(SellerFinds, MaxHypotheses)]

\* scraper.py lines 227-231 (and 242-246, 256-260), scraper_optimized.py
\* lines 242-246, scraper_selenium.py lines 395-402 and 434-441: the loop
\* over the selectors of a field; the first selector that finds an element
\* gives the field that element's text and ends the loop
RECURSIVE FirstFoundLoop(_, _)
FirstFoundLoop(finds, value) ==
    IF finds = <<>> THEN value
    ELSE IF Head(finds).found THEN Head(finds).text
         ELSE FirstFoundLoop(Tail(finds), value)

\* scraper.py lines 284-290 (and 300-306): the loop over rating_selectors;
\* only a text that is non-empty and holds a digit is assigned and ends
\* the loop
RECURSIVE DigitLoop(_, _)
DigitLoop(finds, value) ==
    IF finds = <<>> THEN value
    ELSE IF Head(finds).found /\ Head(finds).text # <<>> /\ HasDigit(Head(finds).text)
         THEN Head(finds).text
         ELSE DigitLoop(Tail(finds), value)

\* scraper.py lines 308-329: soup.select_one returns None when nothing
\* matches and raises nothing, so the except clause that holds the
\* generic selectors is not entered; scraper_optimized.py lines 262-265
\* has the specific selector only
seller_name_soup(page) ==
    IF page.seller.found THEN page.seller.text ELSE T_EMPTY

\* scraper_selenium.py lines 422-443: driver.find_element raises
\* NoSuchElementException when nothing matches, and the except clause
\* walks the generic selectors
seller_name_selenium(page) ==
    IF page.seller.found THEN page.seller.text
    ELSE FirstFoundLoop(page.seller_fallback, T_EMPTY)

\* The fields parse_product_details of scraper.py ("sync") and of
\* MemoryOptimizedScraper ("async"), and get_product_details_selenium
\* ("selenium"), extract from a page; only scraper.py extracts a rating
parse_detail_fields(flavor, page) ==
    [product_name |-> FirstFoundLoop(page.name, T_EMPTY),
     rating |-> IF flavor = "sync" THEN DigitLoop(page.rating, T_EMPTY) ELSE T_EMPTY,
     seller_name |-> IF flavor = "selenium" THEN seller_name_selenium(page)
                     ELSE seller_name_soup(page)]

(* ------------------------- browser backend ---------------------------- *)
\* A product element located by the browser, by what the per-element code
\* of search_products_selenium does with it:
\*   ok         : the link is found and the product page is scraped
\*   nolink     : find_element raises or the href is empty; the element is skipped
\*   detailfail : driver.get raises or get_product_details_selenium
\*                returns None; the element is skipped
ElementStates == {"ok", "nolink", "detailfail"}
Elements == [url : URLs, st : ElementStates]
LinkItems == [url : URLs, st : {"ok", "detailfail"}]

\* get_product_details_selenium on a page that loads
get_product_details_selenium(product_url) ==
    [product_name |-> "Soap Bar 100g", price |-> "Rs. 95",
     product_url |-> product_url, rank |-> 0]

ErrorEntry == [error |-> "Search failed"]

\* lines 137-175: ranks are positions in product_elements[:max_results];
\* elements without a link or whose page fails are left out
RECURSIVE ProcessElements(_, _)
ProcessElements(elems, i) ==
    IF i > Len(elems) THEN <<>>
    ELSE IF elems[i].st = "ok"
         THEN <<[get_product_details_selenium(elems[i].url) EXCEPT !.rank = i]>>
              \o ProcessElements(elems, i + 1)
         ELSE ProcessElements(elems, i + 1)

RECURSIVE get_products_from_urls(_, _)
get_products_from_urls(items, i) ==
    IF i > Len(items) THEN <<>>
    ELSE IF items[i].st = "ok"
         THEN <<[get_product_details_selenium(items[i].url) EXCEPT !.rank = i]>>
              \o get_products_from_urls(items, i + 1)
         ELSE get_products_from_urls(items, i + 1)

\* What one run of the browser meets:
\*   driver_ok : create_driver returns            load_ok : driver.get(search_url) returns
\*   elements  : the product elements of the first selector that locates any
\*   links     : list(set(hrefs)) of the product links, used when elements = <<>>
\*   quit_ok   : driver.quit() in the finally clause returns
\* (elements and links are only looked at once the page has loaded, links
\* only when no element was located)
SeleniumRuns ==
    [import_ok : {TRUE}, driver_ok : {FALSE}, load_ok : {FALSE}, quit_ok : {TRUE},
     elements : {<<>>}, links : {<<>>}]
    \cup
    [import_ok : {TRUE}, driver_ok : {TRUE}, load_ok : {FALSE}, quit_ok : BOOLEAN,
     elements : {<<>>}, links : {<<>>}]
    \cup
    [import_ok : {TRUE}, driver_ok : {TRUE}, load_ok : {TRUE}, quit_ok : BOOLEAN,
     elements : SeqsUpTo(Elements, MaxElements) \ {<<>>}, links : {<<>>}]
    \cup
    [import_ok : {TRUE}, driver_ok : {TRUE}, load_ok : {TRUE}, quit_ok : BOOLEAN,
     elements : {<<>>}, links : SeqsUpTo(LinkItems, MaxElements)]

\* `from scraper_selenium import search_products_selenium` raised ImportError
SeleniumUnavailable ==
    [import_ok |-> FALSE, driver_ok |-> FALSE, load_ok |-> FALSE, quit_ok |-> FALSE,
     elements |-> <<>>, links |-> <<>>]

\* the try block with the TimeoutException of the waits handled by the
\* outer except clause instead of line 133
SeleniumBody_TimeoutIsError(run, max_results_arg) ==
    IF ~run.load_ok THEN <<ErrorEntry>>
    ELSE IF run.elements = <<>>
         THEN IF run.links = <<>>
              THEN <<ErrorEntry>>
              ELSE get_products_from_urls(Take(run.links, max_results_arg), 1)
         ELSE ProcessElements(Take(run.elements, max_results_arg), 1)

\* The value of the try block of search_products_selenium (lines 84-179)
SeleniumBody(run, max_results_arg) ==
    IF ~run.load_ok THEN <<ErrorEntry>>
    ELSE IF run.elements = <<>>
         THEN IF run.links = <<>>
              THEN <<>>
              ELSE get_products_from_urls(Take(run.links, max_results_arg), 1)
         ELSE ProcessElements(Take(run.elements, max_results_arg), 1)

\* search_products_selenium: a list, or the exception of driver.quit()
search_products_selenium(run, max_results_arg) ==
    IF ~run.driver_ok
    THEN [kind |-> "list", items |-> <<ErrorEntry>>]
    ELSE IF run.quit_ok
         THEN [kind |-> "list", items |-> SeleniumBody(run, max_results_arg)]
         ELSE [kind |-> "raise", items |-> <<>>]

\* The browser run failed as a whole (as opposed to finding nothing)
SeleniumFailed(run) == run.import_ok /\ (~run.driver_ok \/ ~run.load_ok \/ ~run.quit_ok)

(* ------------------------------- state -------------------------------- *)
VARIABLES
    mode,              \* entry point called: "fetch", "seq", "async", "cloud",
                       \* "batch", "parse", "detail", "api" or "cloud_api"
    pc,                \* position of the call
    max_results,       \* argument of the search entry points
    f,                 \* mode "fetch": the state of one fetch_html call
    attempt,           \* mode "seq": loop variable of the running fetch_html
    fetch_log,         \* mode "seq": finished fetch_html calls
    n_parsed,          \* number of summaries parse_search_results returned
    product_summaries, \* the summaries after truncation
    idx,               \* mode "seq": 1-based position in product_summaries
    results,           \* records collected so far
    exc,               \* mode "seq": exception caught at line 489
    selenium,          \* mode "seq": the browser runs of this call
    max_concurrent,    \* mode "async": argument of search_products_async
    sem,               \* mode "async": free permits of self._semaphore
    tasks,             \* mode "async": the _process_single_product coroutines
    batch_lo,          \* mode "async": first task of the batch being gathered
    yield_idx,         \* mode "async": next result of the batch to yield
    ret,               \* what the entry point handed to its caller
    nq,                \* mode "batch": len(queries)
    qi,                \* mode "batch": 1-based position of `query` in queries
    batch_out,         \* mode "batch": the entries yielded so far, as the
                       \* consumer holds them
    p,                 \* modes "parse" and "detail": the state of one parser call
    search_doc,        \* mode "seq": the search page fetch_html returned
    http,              \* the response an api_search handler sent
    request_lock,      \* mode "cloud_api": the thread holding request_lock, or 0
    threads,           \* mode "cloud_api": position of each request-handling thread
    last_request_time, \* mode "cloud_api": last_request_time[0]
    now                \* mode "cloud_api": time.time(), in seconds

vars == <<mode, pc, max_results, f, attempt, fetch_log, n_parsed,
          product_summaries, idx, results, exc, selenium, max_concurrent,
          sem, tasks, batch_lo, yield_idx, ret, nq, qi, batch_out, p, search_doc,
          http, request_lock, threads, last_request_time, now>>

bvars == <<nq, qi, batch_out>>
pvars == <<p>>
dvars == <<search_doc>>
tvars == <<request_lock, threads, last_request_time, now>>
hvars == <<http, tvars>>

fvars == <<f>>
svars == <<attempt, fetch_log, idx, exc, selenium>>
qvars == <<n_parsed, product_summaries, results>>
avars == <<max_concurrent, sem, tasks, batch_lo, yield_idx>>

NoRet == [kind |-> "none", items |-> <<>>]
NoFetch == [flavor |-> "none", max_retries |-> 0, delay |-> 0, attempt |-> 0,
            resps |-> <<>>, sleeps |-> <<>>, outcome |-> "none"]

NoParse == [flavor |-> "none", doc |-> <<>>, i |-> 0, products |-> <<>>]
NoHttp == [app |-> "none", status |-> 0, error_body |-> FALSE]

\* no server state: the entry point is called directly
InitNoThreads ==
    /\ request_lock = 0
    /\ threads = <<>>
    /\ last_request_time = 0
    /\ now = 0

InitNoServer ==
    /\ http = NoHttp
    /\ InitNoThreads

InitCommon ==
    /\ tasks = <<>>
    /\ batch_lo = 0
    /\ yield_idx = 0
    /\ attempt = 0
    /\ fetch_log = <<>>
    /\ n_parsed = 0
    /\ product_summaries = <<>>
    /\ idx = 0
    /\ results = <<>>
    /\ exc = ""
    /\ selenium = <<>>
    /\ ret = NoRet
    /\ batch_out = <<>>
    /\ search_doc = <<>>

\* A direct call fetch_html(url, max_retries=r, delay=d)
InitFetch ==
    /\ mode = "fetch"
    /\ pc = "fetching"
    /\ max_results = 1
    /\ max_concurrent = 1
    /\ sem = 1
    /\ \E fl \in {"sync", "async"}, r \in 1..MaxRetriesArg, d \in 1..MaxDelayArg :
          f = [flavor |-> fl, max_retries |-> r,
               delay |-> IF fl = "sync" THEN d ELSE 1,
               attempt |-> 0, resps |-> <<>>, sleeps |-> <<>>, outcome |-> "running"]
    /\ nq = 0 /\ qi = 0
    /\ p = NoParse
    /\ InitCommon
    /\ InitNoServer

\* A call search_products(query, max_results=m)
InitSeq ==
    /\ mode = "seq"
    /\ pc = "fetch_search"
    /\ max_results \in 1..MaxResultsArg
    /\ max_concurrent = 1
    /\ sem = 1
    /\ f = NoFetch
    /\ nq = 0 /\ qi = 0
    /\ p = NoParse
    /\ InitCommon
    /\ InitNoServer

\* A call search_products_async(query, max_results=m, max_concurrent=c)
InitAsync ==
    /\ mode = "async"
    /\ pc = "fetch_search"
    /\ max_results \in 1..MaxResultsArg
    /\ max_concurrent \in 1..MaxConcurrentArg
    /\ sem = max_concurrent
    /\ f = NoFetch
    /\ nq = 0 /\ qi = 0
    /\ p = NoParse
    /\ InitCommon
    /\ InitNoServer

\* A call search_products_cloud(query, max_results=m)
InitCloud ==
    /\ mode = "cloud"
    /\ pc = "cloud_basic"
    /\ max_results \in 1..MaxResultsArg
    /\ max_concurrent = 1
    /\ sem = 1
    /\ f = NoFetch
    /\ nq = 0 /\ qi = 0
    /\ p = NoParse
    /\ InitCommon
    /\ InitNoServer

\* The consumption of scraper.search_products_batch(queries, m) on a
\* MemoryOptimizedScraper(c), queries = <<1, ..., nq>>
InitBatch ==
    /\ mode = "batch"
    /\ pc = "fetch_search"
    /\ max_results \in 1..MaxResultsArg
    /\ max_concurrent \in 1..MaxConcurrentArg
    /\ sem = max_concurrent
    /\ f = NoFetch
    /\ nq \in 1..MaxQueries
    /\ qi = 1
    /\ p = NoParse
    /\ InitCommon
    /\ InitNoServer

\* A call parse_search_results(html) of scraper.py ("sync") or of
\* MemoryOptimizedScraper ("async") on a page whose product cards are doc
InitParse ==
    /\ mode = "parse"
    /\ \E fl \in {"sync", "async"}, doc \in RawDocs :
          /\ p = [flavor |-> fl, doc |-> doc, i |-> 1, products |-> <<>>]
          /\ pc = IF doc = <<>> THEN "done" ELSE "parsing"
    /\ max_results = 1
    /\ max_concurrent = 1
    /\ sem = 1
    /\ f = NoFetch
    /\ nq = 0 /\ qi = 0
    /\ InitCommon
    /\ InitNoServer

\* A call of a product-page parser on a fetched page: parse_product_details
\* of scraper.py ("sync") or of MemoryOptimizedScraper ("async"), or
\* get_product_details_selenium ("selenium")
InitDetail ==
    /\ mode = "detail"
    /\ \E fl \in {"sync", "async", "selenium"}, page \in DetailPages :
          p = [flavor |-> fl, doc |-> <<page>>, i |-> 1, products |-> <<>>]
    /\ pc = "parsing"
    /\ max_results = 1
    /\ max_concurrent = 1
    /\ sem = 1
    /\ f = NoFetch
    /\ nq = 0 /\ qi = 0
    /\ InitCommon
    /\ InitNoServer

\* A request GET /api/search arrives at the api_search handler of app.py
\* or of app_cloud.py; both call search_products of scraper.py
InitApi ==
    /\ mode = "api"
    /\ pc = "request"
    /\ max_results \in 1..MaxResultsArg
    /\ max_concurrent = 1
    /\ sem = 1
    /\ f = NoFetch
    /\ nq = 0 /\ qi = 0
    /\ p = NoParse
    /\ InitCommon
    /\ InitNoServer

\* The cloud API server (start_cloud.py) with n request-handling threads,
\* each with a valid request in hand; the module globals of app_cloud.py
\* lines 17-18 are a free lock and last_request_time = [0]
InitCloudApi ==
    /\ mode = "cloud_api"
    /\ pc = "serving"
    /\ \E n \in 1..MaxThreads : threads = [t \in 1..n |-> "request"]
    /\ request_lock = 0
    /\ last_request_time = 0
    /\ now = MIN_REQUEST_INTERVAL
    /\ http = NoHttp
    /\ max_results = 1
    /\ max_concurrent = 1
    /\ sem = 1
    /\ f = NoFetch
    /\ nq = 0 /\ qi = 0
    /\ p = NoParse
    /\ InitCommon

Init ==
    \/ InitFetch \/ InitSeq \/ InitAsync \/ InitCloud \/ InitBatch \/ InitParse
    \/ InitDetail \/ InitApi \/ InitCloudApi

(* --------------------------- mode "fetch" ----------------------------- *)
\* One iteration of the retry loop of a direct fetch_html call; the
\* response of its GET is recorded, and the sleeps the call makes are
\* recorded with the attempt they follow.
FetchAttempt ==
    /\ mode = "fetch" /\ pc = "fetching"
    /\ \E resp \in Responses :
          LET o == IF f.flavor = "sync"
                   THEN fetch_html(f.attempt, f.max_retries, f.delay, resp)
                   ELSE fetch_html_async(f.attempt, f.max_retries, resp)
              sl == IF o.slept
                    THEN Append(f.sleeps, [after |-> f.attempt, dur |-> o.sleep])
                    ELSE f.sleeps
          IN /\ f' = [f EXCEPT !.attempt = f.attempt + 1, !.sleeps = sl,
                               !.resps = Append(f.resps, resp),
                               !.outcome = IF o.kind = "retry" THEN "running"
                                           ELSE o.kind]
             /\ pc' = IF o.kind = "retry" THEN "fetching" ELSE "done"
    /\ UNCHANGED <<mode, hvars, bvars, pvars, dvars, max_results, svars, qvars, avars, ret>>

(* --------------------------- mode "parse" ----------------------------- *)
\* One iteration of the loop over product_cards; after the last card the
\* function returns products.
ParseCard ==
    /\ mode = "parse" /\ pc = "parsing"
    /\ LET r == parse_card(p.flavor, p.doc[p.i])
       IN p' = [p EXCEPT !.i = p.i + 1,
                         !.products = IF r.emit THEN Append(p.products, r.summary)
                                      ELSE p.products]
    /\ pc' = IF p.i = Len(p.doc) THEN "done" ELSE "parsing"
    /\ UNCHANGED <<mode, hvars, bvars, dvars, max_results, fvars, svars, qvars, avars, ret>>

(* --------------------------- mode "detail" ---------------------------- *)
\* The field extraction of one product-page parser call; p.products
\* becomes the one record it returns.
ParseDetail ==
    /\ mode = "detail" /\ pc = "parsing"
    /\ p' = [p EXCEPT !.i = 2,
                      !.products = <<parse_detail_fields(p.flavor, p.doc[1])>>]
    /\ pc' = "done"
    /\ UNCHANGED <<mode, hvars, bvars, dvars, max_results, fvars, svars, qvars, avars, ret>>

(* ---------------------------- mode "seq" ------------------------------ *)
\* search_products lines 436-453: one iteration of fetch_html(search_url),
\* and on its return the parse, the zero-summaries test and the truncation.
SeqSearchAttempt ==
    /\ mode = "seq" /\ pc = "fetch_search"
    /\ \E resp \in Responses, doc \in SearchDocs :
          LET o == fetch_html(attempt, DEFAULT_MAX_RETRIES, DEFAULT_DELAY, resp)
              entry == [url |-> SEARCH_URL, attempts |-> attempt + 1, kind |-> o.kind]
              sums == parse_search_results(doc)
          IN CASE o.kind = "retry" ->
                    /\ attempt' = attempt + 1
                    /\ UNCHANGED <<pc, fetch_log, qvars, idx, exc, search_doc>>
               [] o.kind = "raise" ->
                    /\ pc' = "fallback_failed"
                    /\ exc' = o.exc
                    /\ fetch_log' = Append(fetch_log, entry)
                    /\ attempt' = 0
                    /\ UNCHANGED <<qvars, idx, search_doc>>
               [] o.kind = "return" ->
                    /\ search_doc' = doc
                    /\ fetch_log' = Append(fetch_log, entry)
                    /\ attempt' = 0
                    /\ n_parsed' = Len(sums)
                    /\ IF sums = <<>>
                       THEN /\ pc' = "fallback_empty"
                            /\ UNCHANGED <<product_summaries, idx>>
                       ELSE /\ pc' = "details"
                            /\ product_summaries' = Take(sums, max_results)
                            /\ idx' = 1
                    /\ UNCHANGED <<results, exc>>
    /\ UNCHANGED <<mode, hvars, bvars, pvars, max_results, fvars, selenium, avars, ret>>

\* a failed detail fetch escaping get_product_details and the except clause
\* of the loop, so that the handler of line 489 takes over
SeqDetailAttempt_FailureEscapes ==
    /\ mode = "seq" /\ pc = "details"
    /\ \E resp \in Responses, doc \in DetailDocs :
          LET summary == product_summaries[idx]
              o == fetch_html(attempt, DEFAULT_MAX_RETRIES, DEFAULT_DELAY, resp)
              entry == [url |-> summary.url, attempts |-> attempt + 1, kind |-> o.kind]
              newres == Append(results,
                               MergeResult(parse_product_details(doc, summary.url),
                                           summary, idx))
          IN CASE o.kind = "retry" ->
                    /\ attempt' = attempt + 1
                    /\ UNCHANGED <<pc, fetch_log, idx, results, ret, exc>>
               [] o.kind = "raise" ->
                    /\ attempt' = 0
                    /\ fetch_log' = Append(fetch_log, entry)
                    /\ pc' = "fallback_failed"
                    /\ exc' = o.exc
                    /\ UNCHANGED <<idx, results, ret>>
               [] o.kind = "return" ->
                    /\ attempt' = 0
                    /\ fetch_log' = Append(fetch_log, entry)
                    /\ results' = newres
                    /\ UNCHANGED exc
                    /\ IF idx = Len(product_summaries)
                       THEN /\ pc' = "done"
                            /\ ret' = [kind |-> "list", items |-> newres]
                            /\ UNCHANGED idx
                       ELSE /\ idx' = idx + 1
                            /\ UNCHANGED <<pc, ret>>
    /\ UNCHANGED <<mode, hvars, bvars, pvars, dvars, max_results, fvars, n_parsed, product_summaries,
                   selenium, avars>>

\* search_products lines 457-487: one iteration of the fetch_html call made
\* by get_product_details(summary["url"]) for the summary at idx; when the
\* call ends, the record is merged and appended, and after the last
\* summary the list is returned.
SeqDetailAttempt ==
    /\ mode = "seq" /\ pc = "details"
    /\ \E resp \in Responses, doc \in DetailDocs :
          LET summary == product_summaries[idx]
              o == fetch_html(attempt, DEFAULT_MAX_RETRIES, DEFAULT_DELAY, resp)
              entry == [url |-> summary.url, attempts |-> attempt + 1, kind |-> o.kind]
              detailed_info ==
                  IF o.kind = "return"
                  THEN parse_product_details(doc, summary.url)
                  ELSE get_product_details_failed(summary.url, o.exc)
              newres == Append(results, MergeResult(detailed_info, summary, idx))
          IN IF o.kind = "retry"
             THEN /\ attempt' = attempt + 1
                  /\ UNCHANGED <<pc, fetch_log, idx, results, ret>>
             ELSE /\ attempt' = 0
                  /\ fetch_log' = Append(fetch_log, entry)
                  /\ results' = newres
                  /\ IF idx = Len(product_summaries)
                     THEN /\ pc' = "done"
                          /\ ret' = [kind |-> "list", items |-> newres]
                          /\ UNCHANGED idx
                     ELSE /\ idx' = idx + 1
                          /\ UNCHANGED <<pc, ret>>
    /\ UNCHANGED <<mode, hvars, bvars, pvars, dvars, max_results, fvars, n_parsed, product_summaries, exc,
                   selenium, avars>>

\* The import of the browser backend and its call, as both fallback sites
\* of search_products make them: a list, or an exception (ImportError of
\* the import, or the exception search_products_selenium let through).
TrySelenium(run, max_results_arg) ==
    IF ~run.import_ok
    THEN [kind |-> "raise", items |-> <<>>]
    ELSE search_products_selenium(run, max_results_arg)

\* the fallback of lines 442-450 without its except clauses
NoResultsFallback_NoCatch(run, max_results_arg) ==
    TrySelenium(run, max_results_arg)

\* search_products lines 442-450: the fallback taken when the primary
\* backend parsed no summaries; both except clauses return [].
NoResultsFallback(run, max_results_arg) ==
    LET r == TrySelenium(run, max_results_arg)
    IN IF r.kind = "raise" THEN [kind |-> "list", items |-> <<>>] ELSE r

\* the fallback of lines 492-500 without its except clauses
FailureFallback_Reraise(run, max_results_arg) ==
    TrySelenium(run, max_results_arg)

\* search_products lines 492-500: the fallback taken when the primary
\* backend raised; both except clauses return a one-element error list.
FailureFallback(run, max_results_arg) ==
    LET r == TrySelenium(run, max_results_arg)
    IN IF r.kind = "raise" THEN [kind |-> "list", items |-> <<ErrorEntry>>] ELSE r

\* search_products lines 439-450: no summaries, the browser backend is
\* tried. The call sits inside the outer try of line 430: an exception it
\* let through would be caught at line 489.
SeqFallbackNoResults ==
    /\ mode = "seq" /\ pc = "fallback_empty"
    /\ \E run \in SeleniumRuns \cup {SeleniumUnavailable} :
          LET r == NoResultsFallback(run, max_results)
          IN /\ selenium' = Append(selenium, run)
             /\ IF r.kind = "raise"
                THEN /\ pc' = "fallback_failed"
                     /\ exc' = "Exception"
                     /\ UNCHANGED ret
                ELSE /\ pc' = "done"
                     /\ ret' = r
                     /\ UNCHANGED exc
    /\ UNCHANGED <<mode, hvars, bvars, pvars, dvars, max_results, fvars, attempt, fetch_log, idx, qvars, avars>>

\* search_products lines 489-500: the primary backend raised, the browser
\* backend is tried; what this handler returns or raises goes to the caller.
SeqFallbackAfterFailure ==
    /\ mode = "seq" /\ pc = "fallback_failed"
    /\ \E run \in SeleniumRuns \cup {SeleniumUnavailable} :
          /\ selenium' = Append(selenium, run)
          /\ ret' = FailureFallback(run, max_results)
    /\ pc' = "done"
    /\ UNCHANGED <<mode, hvars, bvars, pvars, dvars, max_results, fvars, attempt, fetch_log, idx, exc, qvars,
                   avars>>

(* --------------------------- mode "async" ----------------------------- *)
\* ProductData built by _process_single_product from the detail dictionary
\* and the summary: the dataclass has no error field.
ProductData(detailed_info, summary, rank) ==
    [product_name |-> Or(detailed_info.product_name, summary.name),
     price |-> Or(detailed_info.price, summary.price),
     product_url |-> summary.url,
     rank |-> rank]

\* ProductData.to_dict: asdict of the dataclass
to_dict(product) == [k \in DOMAIN product |-> product[k]]

\* A coroutine _process_single_product(summary, rank), not yet started.
\* done_at is the position of its return among the returns of the
\* coroutines of this call (0 while it has not returned).
NewTask(summary, rank) ==
    [st |-> "created", summary |-> summary, rank |-> rank, attempt |-> 0,
     requests |-> 0, outcome |-> "none", done_at |-> 0,
     product |-> ProductData([product_name |-> "", price |-> ""], summary, 0)]

\* search_products_streaming is running, for search_products_async or for
\* search_products_batch
Streaming == mode \in {"async", "batch"}

\* The search pages and product pages the servers answer with. The batch
\* of queries is run on pages whose cards are all alike and whose product
\* pages all parse, single searches on every page.
StreamSearchDocs ==
    IF mode = "batch"
    THEN {doc \in SearchDocs : \A i \in DOMAIN doc : doc[i] = doc[1] /\ doc[i].price # ""}
    ELSE SearchDocs

StreamDetailDocs ==
    IF mode = "batch"
    THEN {doc \in DetailDocs : doc.product_name # ""}
    ELSE DetailDocs

batch_size == Min(max_concurrent, Len(tasks))
batch_hi == Min(batch_lo + batch_size - 1, Len(tasks))

\* The end of search_products_streaming, by exhaustion (kind "list") or by
\* the `raise` of line 337 (kind "raise"). search_products_async returns
\* the list it collected or passes the exception on (lines 398-402);
\* search_products_batch leaves its `async for` (line 376) for line 379
\* or for its except clause (line 385).
StreamEnds(kind, collected) ==
    IF mode = "batch"
    THEN /\ pc' = IF kind = "raise" THEN "batch_except" ELSE "batch_yield"
         /\ UNCHANGED ret
    ELSE /\ pc' = "done"
         /\ ret' = [kind |-> kind, items |-> IF kind = "raise" THEN <<>> ELSE collected]

\* search_products_streaming lines 300-316: one iteration of
\* fetch_html(search_url); on its return the parse, the zero-summaries test,
\* the truncation and the creation of the coroutines; on its exception the
\* `raise` of line 337, which search_products_async passes on.
AsyncSearchAttempt ==
    /\ Streaming /\ pc = "fetch_search"
    /\ \E resp \in Responses, doc \in StreamSearchDocs :
          LET o == fetch_html_async(attempt, DEFAULT_MAX_RETRIES, resp)
              sums == parse_search_results(doc)
              trunc == Take(sums, max_results)
          IN CASE o.kind = "retry" ->
                    /\ attempt' = attempt + 1
                    /\ UNCHANGED <<pc, qvars, tasks, batch_lo, ret>>
               [] o.kind = "raise" ->
                    /\ StreamEnds("raise", results)
                    /\ attempt' = attempt + 1
                    /\ UNCHANGED <<qvars, tasks, batch_lo>>
               [] o.kind = "return" ->
                    /\ attempt' = attempt + 1
                    /\ n_parsed' = Len(sums)
                    /\ IF sums = <<>>
                       THEN /\ StreamEnds("list", results)
                            /\ UNCHANGED <<product_summaries, tasks, batch_lo>>
                       ELSE /\ pc' = "batch"
                            /\ product_summaries' = trunc
                            /\ tasks' = [i \in 1..Len(trunc) |-> NewTask(trunc[i], i)]
                            /\ batch_lo' = 1
                            /\ UNCHANGED ret
                    /\ UNCHANGED results
    /\ UNCHANGED <<mode, hvars, bvars, pvars, dvars, max_results, fvars, fetch_log, idx, exc, selenium,
                   max_concurrent, sem, yield_idx>>

\* lines 320-322: asyncio.gather starts the coroutines of the batch
AsyncGatherBatch ==
    /\ Streaming /\ pc = "batch"
    /\ tasks' = [i \in 1..Len(tasks) |->
                    IF i \in batch_lo..batch_hi
                    THEN [tasks[i] EXCEPT !.st = "ready"]
                    ELSE tasks[i]]
    /\ pc' = "gather"
    /\ UNCHANGED <<mode, hvars, bvars, pvars, dvars, max_results, fvars, svars, qvars, max_concurrent, sem,
                   batch_lo, yield_idx, ret>>

\* The event loop runs the coroutines of the batch while gather waits for
\* them, and whichever of them are left once the caller was cancelled
CoroutinesRun == pc \in {"gather", "cancelled"}

\* coroutines whose GET is outstanding (inside `async with self._semaphore`)
InFlight == {i \in DOMAIN tasks : tasks[i].st = "inflight"}

\* coroutines of this call that have returned
NumReturned == Cardinality({i \in DOMAIN tasks : tasks[i].st = "returned"})

\* the GET sent without entering `async with self._semaphore`
TaskSend_NoAcquire(i) ==
    /\ Streaming /\ CoroutinesRun
    /\ tasks[i].st = "ready"
    /\ tasks' = [tasks EXCEPT ![i].st = "inflight",
                              ![i].requests = tasks[i].requests + 1]
    /\ UNCHANGED <<mode, hvars, bvars, pvars, dvars, pc, max_results, fvars, svars, qvars, max_concurrent,
                   sem, batch_lo, yield_idx, ret>>

\* fetch_html lines 105-106: the coroutine takes a permit and sends its GET
TaskSend(i) ==
    /\ Streaming /\ CoroutinesRun
    /\ tasks[i].st = "ready"
    /\ sem > 0
    /\ sem' = sem - 1
    /\ tasks' = [tasks EXCEPT ![i].st = "inflight",
                              ![i].requests = tasks[i].requests + 1]
    /\ UNCHANGED <<mode, hvars, bvars, pvars, dvars, pc, max_results, fvars, svars, qvars, max_concurrent,
                   batch_lo, yield_idx, ret>>

\* the record tagged with the place of its fetch in the order of
\* completion instead of the rank handed to the coroutine
TaskReceive_RankByCompletion(i) ==
    /\ Streaming /\ CoroutinesRun
    /\ tasks[i].st = "inflight"
    /\ sem' = sem + 1
    /\ \E resp \in Responses, doc \in StreamDetailDocs :
          LET t == tasks[i]
              url == t.summary.url
              o == fetch_html_async(t.attempt, DEFAULT_MAX_RETRIES, resp)
              detailed_info ==
                  IF o.kind = "return"
                  THEN parse_product_details(doc, url)
                  ELSE get_product_details_failed(url, o.exc)
          IN tasks' = [tasks EXCEPT ![i] =
                IF o.kind = "retry"
                THEN [t EXCEPT !.st = IF o.slept THEN "sleeping" ELSE "ready",
                               !.attempt = t.attempt + 1]
                ELSE [t EXCEPT !.st = "returned",
                               !.done_at = NumReturned + 1,
                               !.outcome = IF o.kind = "return" THEN "ok" ELSE "failed",
                               !.product = ProductData(detailed_info, t.summary,
                                                       NumReturned + 1)]]
    /\ UNCHANGED <<mode, hvars, bvars, pvars, dvars, pc, max_results, fvars, svars, qvars, max_concurrent,
                   batch_lo, yield_idx, ret>>

\* the response handled without leaving `async with self._semaphore`: the
\* permit is kept
TaskReceive_KeepPermit(i) ==
    /\ Streaming /\ CoroutinesRun
    /\ tasks[i].st = "inflight"
    /\ \E resp \in Responses, doc \in StreamDetailDocs :
          LET t == tasks[i]
              url == t.summary.url
              o == fetch_html_async(t.attempt, DEFAULT_MAX_RETRIES, resp)
              detailed_info ==
                  IF o.kind = "return"
                  THEN parse_product_details(doc, url)
                  ELSE get_product_details_failed(url, o.exc)
          IN tasks' = [tasks EXCEPT ![i] =
                IF o.kind = "retry"
                THEN [t EXCEPT !.st = IF o.slept THEN "sleeping" ELSE "ready",
                               !.attempt = t.attempt + 1]
                ELSE [t EXCEPT !.st = "returned",
                               !.done_at = NumReturned + 1,
                               !.outcome = IF o.kind = "return" THEN "ok" ELSE "failed",
                               !.product = ProductData(detailed_info, t.summary, t.rank)]]
    /\ UNCHANGED <<mode, hvars, bvars, pvars, dvars, pc, max_results, fvars, svars, qvars, max_concurrent,
                   sem, batch_lo, yield_idx, ret>>

\* fetch_html lines 107-120 and the callers' handling up to the return of
\* _process_single_product: the response arrives, the permit is released,
\* and the coroutine returns its ProductData, sleeps, or goes to its next
\* attempt.
TaskReceive(i) ==
    /\ Streaming /\ CoroutinesRun
    /\ tasks[i].st = "inflight"
    /\ sem' = sem + 1
    /\ \E resp \in Responses, doc \in StreamDetailDocs :
          LET t == tasks[i]
              url == t.summary.url
              o == fetch_html_async(t.attempt, DEFAULT_MAX_RETRIES, resp)
              detailed_info ==
                  IF o.kind = "return"
                  THEN parse_product_details(doc, url)
                  ELSE get_product_details_failed(url, o.exc)
          IN tasks' = [tasks EXCEPT ![i] =
                IF o.kind = "retry"
                THEN [t EXCEPT !.st = IF o.slept THEN "sleeping" ELSE "ready",
                               !.attempt = t.attempt + 1]
                ELSE [t EXCEPT !.st = "returned",
                               !.done_at = NumReturned + 1,
                               !.outcome = IF o.kind = "return" THEN "ok" ELSE "failed",
                               !.product = ProductData(detailed_info, t.summary, t.rank)]]
    /\ UNCHANGED <<mode, hvars, bvars, pvars, dvars, pc, max_results, fvars, svars, qvars, max_concurrent,
                   batch_lo, yield_idx, ret>>

\* fetch_html line 120: the backoff sleep is over
TaskWake(i) ==
    /\ Streaming /\ CoroutinesRun
    /\ tasks[i].st = "sleeping"
    /\ tasks' = [tasks EXCEPT ![i].st = "ready"]
    /\ UNCHANGED <<mode, hvars, bvars, pvars, dvars, pc, max_results, fvars, svars, qvars, max_concurrent,
                   sem, batch_lo, yield_idx, ret>>

\* coroutines that gather started and that have not returned
Unfinished == {i \in DOMAIN tasks : tasks[i].st \in {"ready", "inflight", "sleeping"}}

\* CancelledError caught by the `except Exception` clause of fetch_html
\* as a failed attempt is: the coroutine goes on to the backoff sleep
on_cancel_Caught(t) ==
    IF t.st = "inflight" /\ t.attempt < DEFAULT_MAX_RETRIES - 1
    THEN [t EXCEPT !.st = "sleeping", !.attempt = t.attempt + 1]
    ELSE [t EXCEPT !.st = "cancelled"]

\* CancelledError thrown into a coroutine of the batch at the await it is
\* suspended in (the semaphore, session.get, response.text or
\* asyncio.sleep): it is no Exception, so the clauses of fetch_html line
\* 113, get_product_details line 205 and _process_single_product line 362
\* let it pass and the coroutine ends cancelled
on_cancel(t) == [t EXCEPT !.st = "cancelled"]

\* The caller of search_products_async is cancelled while the call awaits
\* the search page (line 301) or asyncio.gather (line 322): gather cancels
\* the coroutines it started, every `async with self._semaphore` they
\* leave gives its permit back, and CancelledError passes the
\* `except Exception` of line 335 and leaves the call.
AsyncCancel ==
    /\ mode = "async" /\ pc \in {"fetch_search", "gather"}
    /\ tasks' = [i \in DOMAIN tasks |->
                    IF i \in Unfinished THEN on_cancel(tasks[i]) ELSE tasks[i]]
    /\ sem' = sem + Cardinality({i \in InFlight : tasks'[i].st # "inflight"})
    /\ pc' = "cancelled"
    /\ ret' = [kind |-> "cancelled", items |-> <<>>]
    /\ UNCHANGED <<mode, hvars, bvars, pvars, dvars, max_results, fvars, svars, qvars, max_concurrent,
                   batch_lo, yield_idx>>

\* gather returning as soon as one coroutine of the batch has returned
AsyncGatherDone_FirstCompleted ==
    /\ Streaming /\ pc = "gather"
    /\ \E i \in batch_lo..batch_hi : tasks[i].st = "returned"
    /\ pc' = "yield"
    /\ yield_idx' = batch_lo
    /\ UNCHANGED <<mode, hvars, bvars, pvars, dvars, max_results, fvars, svars, qvars, max_concurrent, sem,
                   tasks, batch_lo, ret>>

\* line 322: gather returns once every coroutine of the batch has returned
AsyncGatherDone ==
    /\ Streaming /\ pc = "gather"
    /\ \A i \in batch_lo..batch_hi : tasks[i].st = "returned"
    /\ pc' = "yield"
    /\ yield_idx' = batch_lo
    /\ UNCHANGED <<mode, hvars, bvars, pvars, dvars, max_results, fvars, svars, qvars, max_concurrent, sem,
                   tasks, batch_lo, ret>>

\* asyncio.gather handing back the results latest-argument first
gather_results_Reversed(ts, lo, hi) ==
    [k \in 1..(hi - lo + 1) |-> ts[hi - k + 1].product]

\* line 322: the list asyncio.gather returns for the batch lo..hi, the
\* results in the order of the awaitables passed to it
gather_results(ts, lo, hi) ==
    [k \in 1..(hi - lo + 1) |-> ts[lo + k - 1].product]

\* lines 324-333 and search_products_async lines 399-402: the next result of
\* the batch is yielded and appended as a dictionary; after the last one of
\* the batch the next batch follows, or the list is returned.
AsyncYield ==
    /\ Streaming /\ pc = "yield"
    /\ LET batch_results == gather_results(tasks, batch_lo, batch_hi)
           product == batch_results[yield_idx - batch_lo + 1]
           newres == Append(results, IF mode = "async" THEN to_dict(product)
                                     ELSE product)
       IN /\ results' = newres
          /\ IF yield_idx < batch_hi
             THEN /\ yield_idx' = yield_idx + 1
                  /\ UNCHANGED <<pc, batch_lo, ret>>
             ELSE IF batch_hi < Len(tasks)
                  THEN /\ batch_lo' = batch_lo + batch_size
                       /\ pc' = "batch"
                       /\ UNCHANGED <<yield_idx, ret>>
                  ELSE /\ StreamEnds("list", newres)
                       /\ UNCHANGED <<yield_idx, batch_lo>>
    /\ UNCHANGED <<mode, hvars, bvars, pvars, dvars, max_results, fvars, svars, n_parsed, product_summaries,
                   max_concurrent, sem, tasks>>

(* --------------------------- mode "cloud" ----------------------------- *)
\* What the single GET of search_products_basic meets: the response, the
\* product containers of the page (as Cards) and, when there are none,
\* list(set(hrefs)) of its product links.
CloudPages ==
    [ok : {FALSE}, elements : {<<>>}, links : {<<>>}]
    \cup
    [ok : {TRUE}, elements : SeqsUpTo(Cards, MaxCards) \ {<<>>}, links : {<<>>}]
    \cup
    [ok : {TRUE}, elements : {<<>>}, links : SeqsUpTo(LinkItems, MaxElements)]

\* extract_product_info_basic: the dictionary built from a container
extract_product_info_basic(element) ==
    [product_name |-> element.name, price |-> element.price,
     product_url |-> element.url, rank |-> 0]

\* search_products_basic lines 104-116: containers without a product URL
\* are left out, the others get their position as rank
RECURSIVE BasicFromElements(_, _)
BasicFromElements(elems, i) ==
    IF i > Len(elems) THEN <<>>
    ELSE LET product_info == extract_product_info_basic(elems[i])
         IN IF product_info.product_url # ""
            THEN <<[product_info EXCEPT !.rank = i]>> \o BasicFromElements(elems, i + 1)
            ELSE BasicFromElements(elems, i + 1)

\* get_products_from_urls_basic: one GET per URL, no retry; a URL whose
\* GET fails is left out
RECURSIVE get_products_from_urls_basic(_, _)
get_products_from_urls_basic(items, i) ==
    IF i > Len(items) THEN <<>>
    ELSE IF items[i].st = "ok"
         THEN <<[product_name |-> "Soap Bar 100g", price |-> "Rs. 95",
                 product_url |-> items[i].url, rank |-> i]>>
              \o get_products_from_urls_basic(items, i + 1)
         ELSE get_products_from_urls_basic(items, i + 1)

search_products_basic(page, max_results_arg) ==
    IF ~page.ok THEN <<>>
    ELSE IF page.elements = <<>>
         THEN IF page.links # <<>>
              THEN get_products_from_urls_basic(Take(page.links, max_results_arg), 1)
              ELSE <<>>
         ELSE BasicFromElements(Take(page.elements, max_results_arg), 1)

CloudSeleniumRuns ==
    {run \in SeleniumRuns \cup {SeleniumUnavailable} : run.links = <<>>}

\* search_products_selenium_cloud lines 335-348
RECURSIVE CloudFromElements(_, _)
CloudFromElements(elems, i) ==
    IF i > Len(elems) THEN <<>>
    ELSE IF elems[i].st = "ok"
         THEN <<[product_name |-> "Soap Bar", price |-> "Rs. 100",
                 product_url |-> elems[i].url, rank |-> i]>>
              \o CloudFromElements(elems, i + 1)
         ELSE CloudFromElements(elems, i + 1)

\* search_products_selenium_cloud: every failure (import, driver, page
\* load, driver.quit) ends in one of its except clauses, which return []
search_products_selenium_cloud(run, max_results_arg) ==
    IF ~run.import_ok \/ ~run.driver_ok \/ ~run.load_ok \/ ~run.quit_ok
    THEN <<>>
    ELSE CloudFromElements(Take(run.elements, max_results_arg), 1)

\* search_products_cloud lines 31-35: the basic backend
CloudBasic ==
    /\ mode = "cloud" /\ pc = "cloud_basic"
    /\ \E page \in CloudPages :
          LET res == search_products_basic(page, max_results)
          IN /\ fetch_log' = Append(fetch_log,
                    [url |-> SEARCH_URL, attempts |-> 1,
                     kind |-> IF page.ok THEN "return" ELSE "raise"])
             /\ results' = res
             /\ IF res # <<>>
                THEN /\ pc' = "done"
                     /\ ret' = [kind |-> "list", items |-> res]
                ELSE /\ pc' = "cloud_selenium"
                     /\ UNCHANGED ret
    /\ UNCHANGED <<mode, hvars, bvars, pvars, dvars, max_results, fvars, attempt, idx, exc, selenium, n_parsed,
                   product_summaries, avars>>

\* search_products_cloud lines 37-49: the browser backend, then []
CloudSelenium ==
    /\ mode = "cloud" /\ pc = "cloud_selenium"
    /\ \E run \in CloudSeleniumRuns :
          LET res == search_products_selenium_cloud(run, max_results)
          IN /\ selenium' = Append(selenium, run)
             /\ results' = res
             /\ ret' = [kind |-> "list", items |-> res]
    /\ pc' = "done"
    /\ UNCHANGED <<mode, hvars, bvars, pvars, dvars, max_results, fvars, attempt, fetch_log, idx, exc, n_parsed,
                   product_summaries, avars>>

(* --------------------------- mode "batch" ----------------------------- *)
\* search_products_batch line 373: the for loop takes the next query, with
\* a new `products` list and a new search_products_streaming generator,
\* or the generator is exhausted.
NextQuery ==
    IF qi < nq
    THEN /\ qi' = qi + 1
         /\ pc' = "fetch_search"
         /\ UNCHANGED ret
    ELSE /\ pc' = "done"
         /\ ret' = [kind |-> "stop", items |-> <<>>]
         /\ UNCHANGED qi

\* The locals of the search_products_streaming call that ended
StreamingLocalsDropped ==
    /\ attempt' = 0
    /\ n_parsed' = 0
    /\ product_summaries' = <<>>
    /\ tasks' = <<>>
    /\ batch_lo' = 0
    /\ yield_idx' = 0

\* line 379: `yield {query: products}`; the dictionary the consumer gets
\* holds the list object `products` itself.
BatchYield ==
    /\ mode = "batch" /\ pc = "batch_yield"
    /\ batch_out' = Append(batch_out,
                           [query |-> qi, products |-> results, failed |-> FALSE])
    /\ pc' = "batch_resume"
    /\ UNCHANGED <<mode, hvars, pvars, dvars, nq, qi, max_results, fvars, svars, qvars, avars, ret>>

\* lines 381-383 and 373-375: the consumer asks for the next entry; the
\* generator resumes with products.clear(), which empties the list object
\* the entry it has just yielded holds, and goes on with the next query.
BatchResume ==
    /\ mode = "batch" /\ pc = "batch_resume"
    /\ batch_out' = [batch_out EXCEPT ![Len(batch_out)].products = <<>>]
    /\ results' = <<>>
    /\ StreamingLocalsDropped
    /\ NextQuery
    /\ UNCHANGED <<mode, hvars, pvars, dvars, nq, max_results, fvars, fetch_log, idx, exc, selenium,
                   max_concurrent, sem>>

\* the except clause of lines 385-387 letting the exception through
BatchExcept_Abort ==
    /\ mode = "batch" /\ pc = "batch_except"
    /\ pc' = "done"
    /\ ret' = [kind |-> "raise", items |-> <<>>]
    /\ UNCHANGED <<mode, hvars, bvars, pvars, dvars, max_results, fvars, svars, qvars, avars>>

\* lines 385-387 and 373-375: search_products_streaming raised; the except
\* clause yields {query: []} with a new empty list, and the loop goes on
\* with the next query.
BatchExcept ==
    /\ mode = "batch" /\ pc = "batch_except"
    /\ batch_out' = Append(batch_out,
                           [query |-> qi, products |-> <<>>, failed |-> TRUE])
    /\ results' = <<>>
    /\ StreamingLocalsDropped
    /\ NextQuery
    /\ UNCHANGED <<mode, hvars, pvars, dvars, nq, max_results, fvars, fetch_log, idx, exc, selenium,
                   max_concurrent, sem>>

(* ---------------------------- mode "api" ----------------------------- *)
Apps == {"app", "app_cloud"}

\* What api_search refuses before it searches: a missing query (app.py
\* line 66, app_cloud.py line 122), and in app_cloud.py a limit above 50
\* or below 1 (lines 126-132)
Rejections(app) ==
    IF app = "app" THEN {"missing_query"}
    ELSE {"missing_query", "limit_too_high", "limit_too_low"}

\* jsonify({"error": ...}), 400
api_search_rejected(app, why) ==
    [app |-> app, status |-> 400, error_body |-> TRUE]

\* app.py lines 68-73, app_cloud.py lines 148-171: status 500 with an error
\* object when search_products raised, else status 200 with whatever list
\* it returned
api_search_response(app, r) ==
    IF r.kind = "raise"
    THEN [app |-> app, status |-> 500, error_body |-> TRUE]
    ELSE [app |-> app, status |-> 200, error_body |-> FALSE]

\* the handler refuses the request
ApiReject ==
    /\ mode = "api" /\ pc = "request"
    /\ \E app \in Apps : \E why \in Rejections(app) :
          http' = api_search_rejected(app, why)
    /\ pc' = "responded"
    /\ UNCHANGED <<mode, tvars, bvars, pvars, dvars, max_results, fvars, svars, qvars, avars, ret>>

\* the handler calls search_products(query, max_results=limit)
ApiSearch ==
    /\ mode = "api" /\ pc = "request"
    /\ mode' = "seq"
    /\ pc' = "fetch_search"
    /\ UNCHANGED <<hvars, bvars, pvars, dvars, max_results, fvars, svars, qvars, avars, ret>>

\* search_products has returned to the handler, which answers
ApiRespond ==
    /\ mode = "seq" /\ pc = "done" /\ http = NoHttp
    /\ \E app \in Apps : http' = api_search_response(app, ret)
    /\ UNCHANGED <<mode, pc, tvars, bvars, pvars, dvars, max_results, fvars, svars, qvars, avars,
                   ret>>

(* -------------------------- mode "cloud_api" -------------------------- *)
\* app_cloud.py line 136: the thread enters `with request_lock`
LockAcquire(t) ==
    /\ mode = "cloud_api"
    /\ threads[t] = "request"
    /\ request_lock = 0
    /\ request_lock' = t
    /\ threads' = [threads EXCEPT ![t] = "locked"]
    /\ UNCHANGED <<mode, pc, http, last_request_time, now, bvars, pvars, dvars, max_results,
                   fvars, svars, qvars, avars, ret>>

\* app_cloud.py lines 137-148: inside the lock the thread sleeps until
\* MIN_REQUEST_INTERVAL seconds have passed since the last request, stamps
\* last_request_time and leaves the `with` block; search_products is
\* called after it
RateLimit(t) ==
    /\ mode = "cloud_api"
    /\ threads[t] = "locked" /\ request_lock = t
    /\ LET time_since_last == now - last_request_time
       IN now' = IF time_since_last < MIN_REQUEST_INTERVAL
                 THEN last_request_time + MIN_REQUEST_INTERVAL
                 ELSE now
    /\ last_request_time' = now'
    /\ request_lock' = 0
    /\ threads' = [threads EXCEPT ![t] = "search"]
    /\ UNCHANGED <<mode, pc, http, bvars, pvars, dvars, max_results, fvars, svars, qvars, avars,
                   ret>>

\* app_cloud.py lines 148-160: search_products returns and the thread
\* sends its response
SearchReturn(t) ==
    /\ mode = "cloud_api"
    /\ threads[t] = "search"
    /\ threads' = [threads EXCEPT ![t] = "responded"]
    /\ UNCHANGED <<mode, pc, http, request_lock, last_request_time, now, bvars, pvars, dvars,
                   max_results, fvars, svars, qvars, avars, ret>>

\* a second passes
Tick ==
    /\ mode = "cloud_api"
    /\ now < MaxTime
    /\ \E t \in DOMAIN threads : threads[t] # "responded"
    /\ now' = now + 1
    /\ UNCHANGED <<mode, pc, http, request_lock, threads, last_request_time, bvars, pvars,
                   dvars, max_results, fvars, svars, qvars, avars, ret>>

Next ==
    \/ FetchAttempt
    \/ SeqSearchAttempt
    \/ SeqDetailAttempt
    \/ SeqFallbackNoResults
    \/ SeqFallbackAfterFailure
    \/ AsyncSearchAttempt
    \/ AsyncGatherBatch
    \/ \E i \in DOMAIN tasks : TaskSend(i)
    \/ \E i \in DOMAIN tasks : TaskReceive(i)
    \/ \E i \in DOMAIN tasks : TaskWake(i)
    \/ AsyncGatherDone
    \/ AsyncYield
    \/ AsyncCancel
    \/ CloudBasic
    \/ CloudSelenium
    \/ BatchYield
    \/ BatchResume
    \/ BatchExcept
    \/ ParseCard
    \/ ParseDetail
    \/ ApiReject
    \/ ApiSearch
    \/ ApiRespond
    \/ \E t \in DOMAIN threads : LockAcquire(t)
    \/ \E t \in DOMAIN threads : RateLimit(t)
    \/ \E t \in DOMAIN threads : SearchReturn(t)
    \/ Tick

Spec == Init /\ [][Next]_vars

\* The calls of search_products and of search_products_async, run to
\* their end: the program keeps running while it has a step to take. The
\* interpreter and the asyncio event loop run whatever is runnable, a
\* backoff sleep ends, and every request sent gets its response or its
\* exception.
SearchInit == InitSeq \/ InitAsync

SearchNext ==
    \/ SeqSearchAttempt
    \/ SeqDetailAttempt
    \/ SeqFallbackNoResults
    \/ SeqFallbackAfterFailure
    \/ AsyncSearchAttempt
    \/ AsyncGatherBatch
    \/ \E i \in DOMAIN tasks : TaskSend(i)
    \/ \E i \in DOMAIN tasks : TaskReceive(i)
    \/ \E i \in DOMAIN tasks : TaskWake(i)
    \/ AsyncGatherDone
    \/ AsyncYield

FairSpec == SearchInit /\ [][SearchNext]_vars /\ WF_vars(SearchNext)

TypeOK ==
    mode \in {"fetch", "seq", "async", "cloud", "batch", "parse", "detail", "api",
              "cloud_api"}

(* =============================== claims ================================ *)

\* the call has returned a list to its caller
ReturnedList == pc = "done" /\ ret.kind = "list"

\* the list was built by the detail loop of the primary backend
\* (search_products with at least one summary, search_products_async)
PrimaryList ==
    /\ ReturnedList
    /\ \/ mode = "seq" /\ n_parsed > 0
       \/ mode = "async"

\* the detail fetch of the summary at rank i raised after its last attempt
DetailFetchFailed(i) ==
    \/ mode = "seq" /\ i + 1 \in DOMAIN fetch_log /\ fetch_log[i + 1].kind = "raise"
    \/ mode = "async" /\ i \in DOMAIN tasks /\ tasks[i].outcome = "failed"

\* the record returned at rank i
RecordAt(i) == ret.items[i]

\* C1: the list the primary backend returns for a page with n summaries has
\* exactly min(n, max_results) records and their ranks are 1..min(n,
\* max_results), each once, whichever detail fetches failed (sequential
\* search_products and concurrent search_products_async).
C1_RankContinuity ==
    PrimaryList =>
        LET k == Min(n_parsed, max_results)
        IN /\ Len(ret.items) = k
           /\ \A r \in 1..k :
                 Cardinality({i \in DOMAIN ret.items : ret.items[i].rank = r}) = 1
           /\ \A i \in DOMAIN ret.items : ret.items[i].rank \in 1..k

\* a list of two records whose first detail fetch failed and whose second
\* succeeded
C1_Witness ==
    /\ PrimaryList
    /\ mode = "seq"
    /\ Len(ret.items) = 2
    /\ DetailFetchFailed(1)
    /\ ~DetailFetchFailed(2)

\* C2: the record returned at the rank of a failed detail fetch has the
\* product_url, product_name and price of that rank's summary.
C2_DegradedKeepsSummary ==
    PrimaryList =>
        \A i \in DOMAIN ret.items :
            DetailFetchFailed(i) =>
                /\ RecordAt(i).product_url = product_summaries[i].url
                /\ RecordAt(i).product_name = product_summaries[i].name
                /\ RecordAt(i).price = product_summaries[i].price

\* C3: the record returned at the rank of a failed detail fetch has a
\* non-empty error field, in the sequential and in the concurrent facade.
C3_DegradedHasError ==
    PrimaryList =>
        \A i \in DOMAIN ret.items :
            DetailFetchFailed(i) =>
                /\ "error" \in DOMAIN RecordAt(i)
                /\ RecordAt(i).error # ""

\* the summary fetch of search_products raised after its last attempt
SummaryFetchFailed ==
    /\ fetch_log # <<>>
    /\ fetch_log[1].url = SEARCH_URL
    /\ fetch_log[1].kind = "raise"

\* C4: search_products hands its caller a list on every path, and when the
\* summary fetch failed and the browser backend failed too or could not be
\* imported, that list is a single error entry.
C4_SequentialNeverRaises ==
    (mode = "seq" /\ pc = "done") =>
        /\ ret.kind = "list"
        /\ (/\ SummaryFetchFailed
            /\ selenium # <<>>
            /\ (~selenium[1].import_ok \/ SeleniumFailed(selenium[1])))
           => (/\ Len(ret.items) = 1
               /\ DOMAIN ret.items[1] = {"error"}
               /\ ret.items[1].error # "")

\* the summary fetch failed and the browser backend let an exception through
C4_Witness ==
    /\ mode = "seq" /\ pc = "done"
    /\ SummaryFetchFailed
    /\ selenium # <<>>
    /\ selenium[1].import_ok /\ selenium[1].driver_ok /\ ~selenium[1].quit_ok
    /\ Len(ret.items) = 1

\* C5: search_products_async hands its caller a list or an error value and
\* never an exception, also when the summary fetch failed on every attempt.
C5_AsyncTypedResult ==
    (mode = "async" /\ pc = "done") => ret.kind \in {"list", "error"}

\* number of fetch_html(search_url) calls of the primary backend
SummaryFetchCalls ==
    Cardinality({i \in DOMAIN fetch_log : fetch_log[i].url = SEARCH_URL})

\* C6: one search invocation calls the browser backend at most once and
\* does not go back to the primary backend after it (search_products and
\* search_products_cloud).
C6_FallbackAtMostOnce ==
    mode \in {"seq", "cloud"} =>
        /\ Len(selenium) <= 1
        /\ SummaryFetchCalls <= 1
        /\ selenium # <<>> => pc = "done"

\* the primary backend raised, and the browser backend then failed too
C6_Witness ==
    /\ mode = "seq" /\ pc = "done"
    /\ SummaryFetchFailed
    /\ Len(selenium) = 1
    /\ SeleniumFailed(selenium[1])

\* the primary backend parsed no summaries and the browser run ended well
FellBackOnEmpty ==
    /\ mode = "seq" /\ pc = "done"
    /\ fetch_log # <<>> /\ fetch_log[1].kind = "return"
    /\ n_parsed = 0
    /\ selenium # <<>>
    /\ selenium[1].import_ok
    /\ ~SeleniumFailed(selenium[1])

\* C7: when the primary backend parsed no summaries and the browser backend
\* located m > 0 product cards, search_products returns exactly
\* min(m, max_results) records, after at most one summary fetch call.
C7_FallbackReturnsAllCards ==
    (FellBackOnEmpty /\ selenium[1].elements # <<>>) =>
        /\ ret.kind = "list"
        /\ Len(ret.items) = Min(Len(selenium[1].elements), max_results)
        /\ SummaryFetchCalls <= 1

\* C8: when both backends find no product card and nothing fails,
\* search_products returns the empty list.
C8_BothEmptyGivesEmptyList ==
    (FellBackOnEmpty /\ selenium[1].elements = <<>> /\ selenium[1].links = <<>>) =>
        ret = [kind |-> "list", items |-> <<>>]

\* the browser ran, its waits all timed out, and the call returned
C8_Witness ==
    /\ FellBackOnEmpty
    /\ selenium[1].driver_ok /\ selenium[1].load_ok /\ selenium[1].quit_ok
    /\ selenium[1].elements = <<>> /\ selenium[1].links = <<>>
    /\ ret.kind = "list"

\* C9 as stated: the delay slept before attempt k (0-based) is
\* baseDelay * 2^k.
C9_DelayBeforeAttempt ==
    mode = "fetch" =>
        \A j \in DOMAIN f.sleeps :
            LET k == f.sleeps[j].after + 1
            IN f.sleeps[j].dur = f.delay * (2 ^ k)

\* C9 amended: a delay slept after failed attempt k (0-based), that is
\* before attempt k+1, is baseDelay * 2^k; none follows the last attempt;
\* the delays of one call are in non-decreasing order.
C9_DelayAfterAttempt ==
    mode = "fetch" =>
        /\ \A j \in DOMAIN f.sleeps :
              /\ f.sleeps[j].dur = f.delay * (2 ^ f.sleeps[j].after)
              /\ f.sleeps[j].after < f.max_retries - 1
        /\ \A i, j \in DOMAIN f.sleeps :
              i < j => /\ f.sleeps[i].after < f.sleeps[j].after
                       /\ f.sleeps[i].dur <= f.sleeps[j].dur

\* a direct call with a base delay of 2 that slept twice and then raised
C9_Witness ==
    /\ mode = "fetch"
    /\ f.flavor = "sync" /\ f.delay = 2
    /\ Len(f.sleeps) = 2
    /\ f.outcome = "raise"

RECURSIVE SumAttempts(_, _)
SumAttempts(log, u) ==
    IF log = <<>> THEN 0
    ELSE (IF Head(log).url = u THEN Head(log).attempts ELSE 0)
         + SumAttempts(Tail(log), u)

RECURSIVE SumTaskRequests(_, _)
SumTaskRequests(ts, u) ==
    IF ts = <<>> THEN 0
    ELSE (IF Head(ts).summary.url = u THEN Head(ts).requests ELSE 0)
         + SumTaskRequests(Tail(ts), u)

\* the URL of the fetch_html call mode "seq" is in
CurrentUrl ==
    IF pc = "fetch_search" THEN SEARCH_URL
    ELSE IF pc = "details" THEN product_summaries[idx].url
    ELSE ""

\* GETs the primary backend has sent for URL u in this invocation
RequestsFor(u) ==
    IF mode = "seq"
    THEN SumAttempts(fetch_log, u) + (IF CurrentUrl = u THEN attempt ELSE 0)
    ELSE IF mode = "async"
         THEN SumTaskRequests(tasks, u) + (IF u = SEARCH_URL THEN attempt ELSE 0)
         ELSE 0

\* number of summaries of the truncated list that carry URL u
Occurrences(u) ==
    Cardinality({i \in DOMAIN product_summaries : product_summaries[i].url = u})

\* C10 as stated: within one search invocation every URL is requested at
\* most max_retries times in total.
C10_AtMostMaxRetriesPerUrl ==
    mode \in {"seq", "async"} =>
        \A u \in URLs \cup {SEARCH_URL} : RequestsFor(u) <= DEFAULT_MAX_RETRIES

\* C10 amended: every fetch call sends at most max_retries GETs, it raises
\* only after the max_retries-th failed attempt, the caller makes one fetch
\* call for the search page and one per summary of the truncated list, in
\* order, and none again after a failure; so a URL is requested at most
\* max_retries times for each summary that carries it.
C10_AtMostMaxRetriesPerCall ==
    /\ mode = "seq" =>
          /\ attempt < DEFAULT_MAX_RETRIES
          /\ \A j \in DOMAIN fetch_log :
                /\ fetch_log[j].attempts \in 1..DEFAULT_MAX_RETRIES
                /\ fetch_log[j].kind = "raise" =>
                      fetch_log[j].attempts = DEFAULT_MAX_RETRIES
                /\ j = 1 => fetch_log[j].url = SEARCH_URL
                /\ j > 1 => /\ j - 1 \in DOMAIN product_summaries
                            /\ fetch_log[j].url = product_summaries[j - 1].url
          /\ \A u \in URLs : RequestsFor(u) <= DEFAULT_MAX_RETRIES * Occurrences(u)
          /\ RequestsFor(SEARCH_URL) <= DEFAULT_MAX_RETRIES
    /\ mode = "async" =>
          /\ attempt <= DEFAULT_MAX_RETRIES
          /\ \A i \in DOMAIN tasks :
                /\ tasks[i].requests <= DEFAULT_MAX_RETRIES
                /\ tasks[i].outcome = "failed" =>
                      tasks[i].requests = DEFAULT_MAX_RETRIES
                /\ tasks[i].summary = product_summaries[i]
          /\ \A u \in URLs : RequestsFor(u) <= DEFAULT_MAX_RETRIES * Occurrences(u)
          /\ RequestsFor(SEARCH_URL) <= DEFAULT_MAX_RETRIES

\* a search whose two summaries carry the same URL, the first detail fetch
\* having failed on its last attempt
C10_Witness ==
    /\ mode = "seq" /\ pc = "done"
    /\ Len(product_summaries) = 2
    /\ product_summaries[1].url = product_summaries[2].url
    /\ DetailFetchFailed(1)
    /\ RequestsFor(product_summaries[1].url) > DEFAULT_MAX_RETRIES

\* C11: at every moment of a search_products_async run with budget
\* max_concurrent, the detail-page GETs outstanding are at most
\* max_concurrent, each holding one permit of the semaphore, whatever the
\* other coroutines are doing (backoff sleep, earlier or later batch).
C11_OutstandingWithinBudget ==
    mode = "async" =>
        /\ Cardinality(InFlight) <= max_concurrent
        /\ sem >= 0
        /\ sem + Cardinality(InFlight) = max_concurrent

\* the budget of 2 is used up by two outstanding GETs, one of them a retry
\* sent after a backoff sleep
C11_Witness ==
    /\ Streaming /\ pc = "gather"
    /\ max_concurrent = 2
    /\ Cardinality(InFlight) = 2
    /\ \E i \in InFlight : tasks[i].attempt > 0

\* C12: the list search_products_async returns is in strictly increasing
\* rank order, in whatever order the concurrent detail fetches completed.
C12_BlockingListInRankOrder ==
    (mode = "async" /\ ReturnedList) =>
        \A i, j \in DOMAIN ret.items :
            i < j => ret.items[i].rank < ret.items[j].rank

\* a returned list of two records whose second detail fetch completed
\* before its first
C12_Witness ==
    /\ mode = "async" /\ ReturnedList
    /\ Len(ret.items) = 2
    /\ tasks[2].done_at = 1
    /\ tasks[1].done_at = 2

\* C13: search_products_streaming emits a record as soon as its own detail
\* fetch has completed, without waiting for slower fetches scheduled
\* alongside it: the k-th record emitted is the k-th one that completed.
C13_EmittedOnCompletion ==
    mode = "async" =>
        \A k \in DOMAIN results : tasks[results[k].rank].done_at = k

\* C14: a list search_products_batch has delivered for a query stays as it
\* was delivered (the records of that query, in order) through every later
\* step of the batch, so that the consumer's map holds it at the end.
C14_DeliveredListsKept ==
    [][\A k \in DOMAIN batch_out :
          batch_out'[k].products = batch_out[k].products]_vars

\* C15: search_products_batch yields exactly one entry per query, in input
\* order; the entry of a query whose summary fetch raised is {query: []};
\* the queries after it are still processed and the generator ends without
\* an exception.
C15_OneEntryPerQuery ==
    mode = "batch" =>
        /\ Len(batch_out) <= nq
        /\ Len(batch_out) \in {qi - 1, qi}
        /\ \A k \in DOMAIN batch_out :
              /\ batch_out[k].query = k
              /\ batch_out[k].failed => batch_out[k].products = <<>>
        /\ pc = "batch_except" => Len(batch_out) = qi - 1
        /\ pc = "done" => /\ Len(batch_out) = nq
                          /\ ret.kind = "stop"

\* the first query failed, and the second has delivered a list with a record
C15_Witness ==
    /\ mode = "batch" /\ pc = "batch_resume"
    /\ nq = 2
    /\ Len(batch_out) = 2
    /\ batch_out[1].failed
    /\ ~batch_out[2].failed /\ batch_out[2].products # <<>>

\* C16: search_products_batch works on one query at a time: while the
\* requests of a query are made, the entries of all queries before it have
\* been yielded; when an entry is yielded no request of its query is still
\* outstanding; so the outstanding GETs over the whole batch never exceed
\* max_concurrent.
C16_QueriesOneAtATime ==
    mode = "batch" =>
        /\ Cardinality(InFlight) <= max_concurrent
        /\ sem + Cardinality(InFlight) = max_concurrent
        /\ pc \in {"fetch_search", "batch", "gather", "yield"} =>
              Len(batch_out) = qi - 1
        /\ pc \in {"batch_yield", "batch_resume", "batch_except", "done"} =>
              /\ InFlight = {}
              /\ \A i \in DOMAIN tasks : tasks[i].st = "returned"
        /\ \A i \in DOMAIN tasks : tasks[i].summary = product_summaries[i]

\* the second query has two GETs outstanding, the entry of the first query
\* having been yielded
C16_Witness ==
    /\ mode = "batch" /\ pc = "gather"
    /\ qi = 2 /\ Len(batch_out) = 1
    /\ max_concurrent = 2
    /\ Cardinality(InFlight) = 2

\* a card of the search page from which a product URL and a name are
\* extracted
Extractable(card) == card.url # "" /\ card.name # ""

\* the extractable cards of the page search_products fetched, in document
\* order
ExtractableCards == SelectSeq(search_doc, Extractable)

\* the cards parse_search_results has gone through
CardsSeen == SubSeq(p.doc, 1, p.i - 1)

\* a card the running parse_search_results call emits a summary for
Emitted(card) == parse_card(p.flavor, card).emit

\* C17: parse_search_results emits the summaries in the document order of
\* their cards, and the record at rank r of the list search_products
\* returns is derived from the r-th extractable card of the page: the
\* list is the first min(n, max_results) of them, ranks 1, 2, ... in
\* document order.
C17_DocumentOrder ==
    /\ mode = "parse" =>
          LET cards == SelectSeq(CardsSeen, Emitted)
          IN p.products = [k \in 1..Len(cards) |-> parse_card(p.flavor, cards[k]).summary]
    /\ (mode = "seq" /\ PrimaryList) =>
          \A r \in DOMAIN ret.items :
              /\ r <= Len(ExtractableCards)
              /\ ret.items[r].rank = r
              /\ ret.items[r].product_url = ExtractableCards[r].url
              /\ product_summaries[r].url = ExtractableCards[r].url
              /\ product_summaries[r].name = ExtractableCards[r].name

\* a page with two extractable cards of different products searched with
\* max_results = 1: the one record returned is the first card's
C17_Witness ==
    /\ mode = "seq" /\ PrimaryList
    /\ max_results = 1
    /\ Len(ExtractableCards) = 2
    /\ ExtractableCards[1].url # ExtractableCards[2].url
    /\ Len(ret.items) = 1

\* a card without a product link and without any text
Unextractable(card) ==
    /\ card.href = <<>>
    /\ card.link_text = <<>>
    /\ \A k \in DOMAIN card.names : card.names[k] = <<>>

\* C18: a card from which neither a product URL nor a name is extracted is
\* not emitted by parse_search_results (every summary emitted has both),
\* and it takes no max_results slot: on a page with c >= 1 extractable
\* cards among any others, search_products returns min(c, max_results)
\* records.
C18_UnextractableCardsDropped ==
    /\ mode = "parse" =>
          /\ \A k \in DOMAIN p.products :
                p.products[k].url # <<>> /\ p.products[k].name # <<>>
          /\ Len(p.products) =
                Cardinality({k \in DOMAIN CardsSeen :
                                parse_card(p.flavor, CardsSeen[k]).emit})
          /\ \A k \in DOMAIN CardsSeen :
                Unextractable(CardsSeen[k]) => ~parse_card(p.flavor, CardsSeen[k]).emit
    /\ (mode = "seq" /\ PrimaryList) =>
          Len(ret.items) = Min(Len(ExtractableCards), max_results)

\* a page whose first card has no product link and whose second card is
\* extractable, searched with max_results = 2: one record is returned
C18_Witness ==
    /\ mode = "seq" /\ PrimaryList
    /\ max_results = 2
    /\ Len(search_doc) = 2
    /\ ~Extractable(search_doc[1])
    /\ Extractable(search_doc[2])
    /\ Len(ret.items) = 1

\* C19: the url of every summary parse_search_results emits begins with
\* https://www.daraz.com.np, whatever the form of the href it was built
\* from (protocol-relative, root-relative, absolute, bare relative).
C19_UrlIsCanonical ==
    mode = "parse" =>
        \A k \in DOMAIN p.products :
            /\ Len(p.products[k].url) >= 3
            /\ SubSeq(p.products[k].url, 1, 3) = BASE_URL

\* C20: the price of every summary parse_search_results emits is the
\* default 'Price not available' or contains a digit, and its name is
\* longer than 3 characters; a text that failed the check of one selector
\* is not emitted when no later selector matches.
C20_PlausibleFields ==
    mode = "parse" =>
        \A k \in DOMAIN p.products :
            /\ \/ p.products[k].price = NO_PRICE_TEXT
               \/ HasDigit(p.products[k].price)
            /\ Len(p.products[k].name) > 3

\* The page a finished product-page parser call was given, and the record
\* it returned
DetailDone == mode = "detail" /\ pc = "done"
ParsedPage == p.doc[1]
ParsedRecord == p.products[1]

\* the position of the first of `finds` that satisfies Good, 0 when none does
FirstIndex(finds, Good(_)) ==
    IF \E h \in DOMAIN finds : Good(finds[h])
    THEN CHOOSE h \in DOMAIN finds :
            /\ Good(finds[h])
            /\ \A g \in 1..(h - 1) : ~Good(finds[g])
    ELSE 0

IsFound(find) == find.found

\* C21: when the specific seller selector finds nothing on a product page
\* and one of the generic seller selectors finds an element, the record's
\* seller_name is the text of the first generic selector that finds one.
C21_SellerFallback ==
    DetailDone =>
        LET h == FirstIndex(ParsedPage.seller_fallback, IsFound)
        IN (~ParsedPage.seller.found /\ h # 0) =>
              ParsedRecord.seller_name = ParsedPage.seller_fallback[h].text

HasText(find) == find.found /\ find.text # <<>>
HasDigitText(find) == find.found /\ find.text # <<>> /\ HasDigit(find.text)

\* C28: the selectors of a field of a product page are tried in order and
\* the first one that yields a value gives the field: the product_name is
\* the text of the first name selector that finds a non-empty text, also
\* when an earlier selector found an element with empty text, and the
\* rating is the text of the first rating selector that finds a text with
\* a digit.
C28_FirstValueWins ==
    DetailDone =>
        LET hn == FirstIndex(ParsedPage.name, HasText)
            hr == FirstIndex(ParsedPage.rating, HasDigitText)
        IN /\ hn # 0 => ParsedRecord.product_name = ParsedPage.name[hn].text
           /\ (p.flavor = "sync" /\ hr # 0) =>
                 ParsedRecord.rating = ParsedPage.rating[hr].text

\* C22: a call of search_products_async ends, whatever max_concurrent >= 1
\* and max_results >= 1 are and whichever requests fail, provided every
\* request gets its response or its exception; no coroutine is left
\* waiting for a permit, and all permits of the semaphore are back at the
\* end.
C22_StreamTerminates ==
    (mode = "async") ~> (pc = "done" /\ sem = max_concurrent)

\* a call that ended after two coroutines shared one permit and a fetch
\* failed for good
C22_Witness ==
    /\ mode = "async" /\ pc = "done"
    /\ max_concurrent = 1 /\ sem = 1
    /\ Len(tasks) = 2
    /\ \E i \in DOMAIN tasks : tasks[i].outcome = "failed"

\* C23: once the caller of search_products_async has been cancelled, no
\* coroutine of the call is left in its retry loop, no further GET is
\* sent and no backoff sleep begins: the cancellation step and every step
\* after it leave each coroutine's number of requests as it was and
\* leave no coroutine waiting, in flight or asleep.
C23_CancelledFetchesAbandoned ==
    [][pc' = "cancelled" =>
          \A i \in DOMAIN tasks :
             /\ tasks'[i].requests = tasks[i].requests
             /\ tasks'[i].st \notin {"ready", "inflight", "sleeping"}]_vars

\* a cancelled call one of whose coroutines was in its retry loop, with a
\* failed attempt behind it, and another had its GET outstanding or was
\* about to send it
C23_Witness ==
    /\ mode = "async" /\ pc = "cancelled"
    /\ sem = max_concurrent
    /\ \E i, j \in DOMAIN tasks :
          /\ i # j
          /\ tasks[i].st = "cancelled" /\ tasks[i].attempt >= 1
          /\ tasks[j].st = "cancelled" /\ tasks[j].attempt = 0

\* C24: when search_products ends in its top-level failure (it returns the
\* error result) or the request carries no query, api_search answers with
\* a 4xx/5xx status and a JSON error body, never with a 2xx status.
C24_FailureGivesErrorStatus ==
    /\ (mode = "api" /\ pc = "responded") =>
          (http.status >= 400 /\ http.error_body)
    /\ (mode = "seq" /\ http # NoHttp /\ ret.items = <<ErrorEntry>>) =>
          (http.status >= 400 /\ http.error_body)

\* C30: the rate-limit guard of the cloud API keeps the requests apart:
\* whatever the interleaving of the request-handling threads, at most one
\* of them is inside search_products at any time.
C30_OneSearchAtATime ==
    mode = "cloud_api" =>
        Cardinality({t \in DOMAIN threads : threads[t] = "search"}) <= 1

\* the record tagged rank r belongs to the r-th summary of the truncated list
TaggedWithOwnRank(record) ==
    /\ record.rank \in DOMAIN product_summaries
    /\ record.product_url = product_summaries[record.rank].url

\* C25: the ranks of the concurrent facade are the positions in the
\* truncated summary list, fixed when the coroutines are created: whatever
\* the interleaving and the order of completion of the detail fetches,
\* the record a coroutine returns and every record emitted carries as rank
\* the position of the summary whose url it has.
C25_RankFixedBeforeFetch ==
    mode = "async" =>
        /\ \A i \in DOMAIN tasks :
              /\ tasks[i].rank = i
              /\ tasks[i].st = "returned" => TaggedWithOwnRank(tasks[i].product)
        /\ \A k \in DOMAIN results : TaggedWithOwnRank(results[k])

\* a returned list of two records of different products, the detail fetch
\* of the second completed first, that of the first after a failed attempt
C25_Witness ==
    /\ mode = "async" /\ ReturnedList
    /\ Len(ret.items) = 2
    /\ product_summaries[1].url # product_summaries[2].url
    /\ tasks[2].done_at = 1 /\ tasks[1].done_at = 2
    /\ tasks[1].attempt >= 1

\* search_products has reached its loop over the truncated summaries
DetailExtractionStarted == idx >= 1

\* search_products has called the browser backend
FallbackTaken == selenium # <<>>

\* C26: a call of search_products goes from the summary fetch either to
\* the browser fallback or to the detail extraction on the primary
\* backend and then ends: the two are never both taken (no fallback once
\* detail extraction has started), a finished call has taken exactly one
\* of them, and every call ends, provided every network call returns or
\* fails.
C26_OneBranchThenDone ==
    /\ [](mode = "seq" =>
            /\ ~(FallbackTaken /\ DetailExtractionStarted)
            /\ pc = "done" => (FallbackTaken \/ DetailExtractionStarted))
    /\ (mode = "seq") ~> (pc = "done")

\* a finished call that extracted details for two summaries, the first
\* detail fetch having failed on every attempt, without any fallback
C26_Witness ==
    /\ mode = "seq" /\ pc = "done"
    /\ ~FallbackTaken
    /\ Len(results) = 2
    /\ Len(fetch_log) = 3
    /\ fetch_log[2].kind = "raise"

Is2xx(resp) == resp \in {"ok200", "ok2xx"}

\* C27: fetch_html treats every response that is not 2xx as it treats a
\* network error (a backoff sleep follows unless it was the last attempt,
\* and after the last attempt the call raises), and every 2xx response
\* ends the call with the body returned.
C27_Non2xxIsTransientFailure ==
    mode = "fetch" =>
        \A k \in DOMAIN f.resps :
            IF Is2xx(f.resps[k])
            THEN k = Len(f.resps) /\ f.outcome = "return"
            ELSE IF k = f.max_retries
                 THEN f.outcome = "raise"
                 ELSE \E j \in DOMAIN f.sleeps : f.sleeps[j].after = k - 1

\* C29: the browser backend and the cloud backends give ranks that are
\* the 1-based positions in the presented order and survive failed items:
\* the list an alternate backend returns is ranked 1..k without gaps, on
\* the product-container path and on the product-link path.
C29_AlternateRanksGapless ==
    (/\ \/ mode = "seq" /\ pc = "done" /\ FallbackTaken
        \/ mode = "cloud" /\ pc = "done"
     /\ ret.kind = "list")
    => \A k \in DOMAIN ret.items :
          "rank" \in DOMAIN ret.items[k] => ret.items[k].rank = k
====
